---- MODULE Spec2Model ----
(***************************************************************************)
(* A model of verify.py, the verifier of a VCP evidence pack: per-event    *)
(* content hashing, hash-chain linkage, Merkle root reconstruction,        *)
(* Ed25519 signature checking, file-manifest checking, tier requirements   *)
(* and the aggregation done by main.                                       *)
(*                                                                         *)
(* Data encoding.  A Python str / bytes / None value is a non-empty        *)
(* sequence of naturals; a dict is a sequence of <<key, value>> pairs in   *)
(* insertion order, a value being <<"s", scalar>> or <<"d", dict>>.        *)
(* SHA-256 is an ideal (collision-free) hash: the digest of a message is   *)
(* the message under a tag.  Error strings are <<index, text>> pairs; the  *)
(* 16-character excerpts of hashes that the messages carry are left out.   *)
(***************************************************************************)
EXTENDS Integers, Sequences, FiniteSets, TLC

VARIABLES
    events,          \* List[dict]: the loaded events
    batches,         \* dict: batches.json
    manifest,        \* the files of hash_manifest.json, or the empty dict
    public_key,      \* Optional[bytes]: what load_public_key returned
    NACL_AVAILABLE,  \* whether PyNaCl could be imported
    pc,              \* position in the function being run
    i,               \* loop index (events processed so far)
    passed,
    failed,
    errors,
    prev_hash,       \* verify_hash_chain: the expected PrevHash
    hashes,          \* compute_merkle_root: its argument
    leaves,          \* compute_merkle_root: the current level
    total_passed,
    total_failed,
    all_errors,
    ran,             \* main: the checkers that ran, in execution order
    result           \* the value returned by the function being run

\* what is loaded before the checks run, and never written afterwards
inputs == <<events, batches, manifest, public_key, NACL_AVAILABLE>>
\* the locals of the checker being run
locals == <<i, passed, failed, errors, prev_hash, hashes, leaves>>
\* the accumulators of main
totals == <<total_passed, total_failed, all_errors, ran>>

vars == <<inputs, locals, totals, pc, result>>

(***************************************************************************)
(* Bounds of the model.                                                    *)
(***************************************************************************)
MaxEvents == 3

(***************************************************************************)
(* Scalars.                                                                *)
(***************************************************************************)
None == <<0>>
EmptyStr == <<1>>
\* '0' * 64
Genesis == <<2>>
\* a string that is not hexadecimal
NotHex == <<5>>
SymA == <<6>>
SymB == <<7>>
PTP_LOCKED == <<8>>
NANOSECOND == <<9>>
OtherStr == <<10>>

\* Python truthiness of an Optional[str]
Truthy(s) == s # None /\ s # EmptyStr

Min(a, b) == IF a < b THEN a ELSE b

(***************************************************************************)
(* Dicts.                                                                  *)
(***************************************************************************)
S(x) == <<"s", x>>
D(d) == <<"d", d>>
IsDict(v) == v[1] = "d"

HasKey(d, k) == \E n \in 1..Len(d) : d[n][1] = k
Keys(d) == {d[n][1] : n \in 1..Len(d)}
Lookup(d, k) == d[CHOOSE n \in 1..Len(d) : d[n][1] = k][2]

\* d.get(k) for a scalar field: the value, or None
GetStr(d, k) == IF HasKey(d, k) THEN Lookup(d, k)[2] ELSE None

\* d.get(k, {}) for a dict field
GetDict(d, k) == IF HasKey(d, k) THEN Lookup(d, k)[2] ELSE <<>>

\* the keys of the evidence pack in the order of their UTF-8 bytes, which is the
\* order json.dumps(sort_keys=True) emits them in
SortedKeys ==
    <<"ClockSyncStatus", "EventHash", "Governance", "Hash", "Header", "PrevHash",
      "Signature", "Symbol", "TimestampPrecision", "Value", "hash", "signature">>

(***************************************************************************)
(* canonicalize: json.dumps(obj, sort_keys=True, separators=(',', ':')).   *)
(* The text is a sequence of tokens: 0 opens and closes an object, a key   *)
(* is its code (>= 1), a scalar is its length (>= 1) followed by itself.   *)
(***************************************************************************)
RECURSIVE CanonValue(_), CanonFrom(_, _)
CanonValue(v) ==
    IF IsDict(v) THEN <<0>> \o CanonFrom(v[2], 1) \o <<0>>
    ELSE <<Len(v[2])>> \o v[2]

CanonFrom(d, n) ==
    IF n > Len(SortedKeys) THEN <<>>
    ELSE (IF HasKey(d, SortedKeys[n])
          THEN <<n>> \o CanonValue(Lookup(d, SortedKeys[n]))
          ELSE <<>>) \o CanonFrom(d, n + 1)

canonicalize(obj) == CanonValue(D(obj))

(***************************************************************************)
(* hashlib.sha256: digest() is raw bytes, hexdigest() their hex string.    *)
(* Raw digests carry the tag 4, hex strings of digests the tag 3.           *)
(***************************************************************************)
sha256_digest(m) == <<4>> \o m
hex(b) == <<3>> \o Tail(b)
sha256_hexdigest(m) == hex(sha256_digest(m))

\* whether bytes.fromhex accepts the string
IsHex(h) == h = Genesis \/ h[1] = 3
\* bytes.fromhex, for a string that is hexadecimal ('0' * 64 is 32 zero bytes)
fromhex(h) == IF h = Genesis THEN <<4>> ELSE <<4>> \o Tail(h)

(***************************************************************************)
(* compute_event_hash                                                      *)
(***************************************************************************)
DroppedTop == {"Hash", "hash", "Signature", "signature"}

\* mutant: Header.EventHash stays in the hashed view
header_copy_KeepsEventHash(v) == v

header_copy(v) == LET keep(p) == p[1] # "EventHash" IN SelectSeq(v, keep)

event_copy(event) ==
    LET kept == LET keep(p) == p[1] \notin DroppedTop IN SelectSeq(event, keep)
    IN [n \in 1..Len(kept) |->
          IF kept[n][1] = "Header" /\ IsDict(kept[n][2])
          THEN <<"Header", D(header_copy(kept[n][2][2]))>>
          ELSE kept[n]]

compute_event_hash(event) == sha256_hexdigest(canonicalize(event_copy(event)))

(***************************************************************************)
(* verify_hash_chain.  ChainIter is one iteration of the loop over the     *)
(* state st = [passed, failed, errors, prev_hash], for the event at        *)
(* 0-based index idx.                                                      *)
(***************************************************************************)
StoredHash(event) == GetStr(GetDict(event, "Header"), "EventHash")
StoredPrev(event) == GetStr(GetDict(event, "Header"), "PrevHash")

\* the body of the loop, but for the value prev_hash is advanced to
ChainCounts(st, idx, event, next_prev) ==
    LET stored_hash == StoredHash(event)
        stored_prev == StoredPrev(event)
        prevBad == stored_prev # st.prev_hash
        computed == compute_event_hash(event)
        hashBad == computed # stored_hash
        errs1 == IF prevBad THEN Append(st.errors, <<idx, "PrevHash mismatch">>)
                 ELSE st.errors
        errs2 == IF hashBad THEN Append(errs1, <<idx, "EventHash mismatch">>)
                 ELSE errs1
    IN [passed |-> st.passed + (IF hashBad THEN 0 ELSE 1),
        failed |-> st.failed + (IF prevBad THEN 1 ELSE 0) + (IF hashBad THEN 1 ELSE 0),
        errors |-> errs2,
        prev_hash |-> next_prev]

\* mutant: prev_hash is never advanced
ChainIter_NoAdvance(st, idx, event) == ChainCounts(st, idx, event, st.prev_hash)

\* mutant: prev_hash is advanced to the recomputed digest
ChainIter_Recomputed(st, idx, event) ==
    ChainCounts(st, idx, event, compute_event_hash(event))

\* mutant: prev_hash is advanced to the stored hash even when it is missing
ChainIter_Unconditional(st, idx, event) ==
    ChainCounts(st, idx, event, StoredHash(event))

\* prev_hash = stored_hash if stored_hash else prev_hash
ChainIter(st, idx, event) ==
    ChainCounts(st, idx, event,
                IF Truthy(StoredHash(event)) THEN StoredHash(event) ELSE st.prev_hash)

ChainStart == [passed |-> 0, failed |-> 0, errors |-> <<>>, prev_hash |-> Genesis]

RECURSIVE ChainFold(_, _)
ChainFold(evs, n) ==
    IF n = 0 THEN ChainStart ELSE ChainIter(ChainFold(evs, n - 1), n - 1, evs[n])

\* the function as a whole, as main calls it
verify_hash_chain(evs) ==
    LET st == ChainFold(evs, Len(evs)) IN <<st.passed, st.failed, st.errors>>

(***************************************************************************)
(* The event lists the hash-chain check is run on.  Every event has a      *)
(* Header and a Governance object; its PrevHash is absent, the genesis     *)
(* value or the last hash declared before it; its EventHash is             *)
(* absent, empty, the digest of the event, or the digest the event had     *)
(* with another Governance.Symbol (a payload changed after hashing).       *)
(***************************************************************************)
\* the declared hash of the last of the first n events that declares a non-empty
\* one, the genesis value when none does
LastDeclared(evs, n) ==
    LET have == {m \in 1..n : Truthy(StoredHash(evs[m]))}
    IN IF have = {} THEN Genesis
       ELSE StoredHash(evs[CHOOSE m \in have : \A o \in have : o <= m])

Absent == <<>>

Field(k, x) == IF x = Absent THEN <<>> ELSE << <<k, S(x)>> >>

MkEvent(prev, ehash, sym) ==
    << <<"Header", D(Field("PrevHash", prev) \o Field("EventHash", ehash))>>,
       <<"Governance", D(Field("Symbol", sym))>> >>

OtherSym(sym) == IF sym = SymA THEN SymB ELSE SymA

ChainEvents(c) ==
    LET prevs == {Genesis, Absent, LastDeclared(c, Len(c))}
    IN UNION { { MkEvent(p, h, SymA) :
                 h \in {Absent, EmptyStr,
                        compute_event_hash(MkEvent(p, Absent, SymA)),
                        compute_event_hash(MkEvent(p, Absent, SymB))} } : p \in prevs }

RECURSIVE ChainsOfLen(_)
ChainsOfLen(n) ==
    IF n = 0 THEN {<<>>}
    ELSE UNION { { Append(c, e) : e \in ChainEvents(c) } : c \in ChainsOfLen(n - 1) }

ChainInputs(max) == UNION { ChainsOfLen(n) : n \in 0..max }

(***************************************************************************)
(* Specification Spec: verify_hash_chain run on a list of events.          *)
(***************************************************************************)
NoBatches == batches = <<>>
NoManifest == manifest = <<>>
NoKey == public_key = None /\ NACL_AVAILABLE = TRUE
NoTotals == total_passed = 0 /\ total_failed = 0 /\ all_errors = <<>> /\ ran = <<>>
NoRoot == hashes = <<>> /\ leaves = <<>>
NoCounts == i = 0 /\ passed = 0 /\ failed = 0 /\ errors = <<>>

Init ==
    /\ events \in ChainInputs(MaxEvents)
    /\ NoBatches /\ NoManifest /\ NoKey /\ NoTotals /\ NoRoot /\ NoCounts
    /\ pc = "chain"
    /\ prev_hash = Genesis
    /\ result = <<>>

ChainLoop ==
    /\ pc = "chain" /\ i < Len(events)
    /\ LET st == ChainIter([passed |-> passed, failed |-> failed, errors |-> errors,
                            prev_hash |-> prev_hash], i, events[i + 1])
       IN /\ passed' = st.passed /\ failed' = st.failed
          /\ errors' = st.errors /\ prev_hash' = st.prev_hash
    /\ i' = i + 1
    /\ UNCHANGED <<inputs, totals, hashes, leaves, pc, result>>

\* mutant: the loop is left at the first event that fails
ChainReturn_AtFirstFailure ==
    /\ pc = "chain" /\ (i = Len(events) \/ failed > 0)
    /\ result' = <<passed, failed, errors>>
    /\ pc' = "done"
    /\ UNCHANGED <<inputs, locals, totals>>

ChainReturn ==
    /\ pc = "chain" /\ i = Len(events)
    /\ result' = <<passed, failed, errors>>
    /\ pc' = "done"
    /\ UNCHANGED <<inputs, locals, totals>>

Next == ChainLoop \/ ChainReturn

Spec == Init /\ [][Next]_vars

(***************************************************************************)
(* Hash-chain claims.                                                      *)
(***************************************************************************)
Range(s) == {s[n] : n \in 1..Len(s)}

\* the chain the claims call valid: genesis first, every PrevHash the declared
\* hash of the event before, every EventHash the digest of its event
ValidChain(evs) ==
    \A n \in 1..Len(evs) :
        /\ StoredPrev(evs[n]) = (IF n = 1 THEN Genesis ELSE StoredHash(evs[n - 1]))
        /\ StoredHash(evs[n]) = compute_event_hash(evs[n])

\* C1: on a valid chain of N events (N >= 0) verify_hash_chain returns
\* passed = N, failed = 0 and no error.
C1_ValidChainPasses ==
    (pc = "done" /\ ValidChain(events)) => result = <<Len(events), 0, <<>>>>

C1_Witness ==
    pc = "done" /\ ValidChain(events) /\ Len(events) >= 2 /\ result[1] = Len(events)

SetSymbol(event, sym) ==
    [n \in 1..Len(event) |->
        IF event[n][1] = "Governance" THEN <<"Governance", D(Field("Symbol", sym))>>
        ELSE event[n]]

Symbol(event) == GetStr(GetDict(event, "Governance"), "Symbol")

\* evs is a valid chain in which the payload of event k was changed afterwards
PayloadChangedAt(evs, k) ==
    \E sym \in {SymA, SymB} :
        /\ sym # Symbol(evs[k])
        /\ ValidChain([evs EXCEPT ![k] = SetSymbol(evs[k], sym)])

\* C2: a payload change at one mid-chain index k of a valid chain gives exactly
\* one failure, the EventHash mismatch of k, no PrevHash mismatch anywhere, and
\* passed = N - 1.
C2_CorruptionLocalized ==
    \A k \in 2..(Len(events) - 1) :
        (pc = "done" /\ PayloadChangedAt(events, k))
            => result = <<Len(events) - 1, 1, << <<k - 1, "EventHash mismatch">> >> >>

C2_Witness ==
    /\ pc = "done"
    /\ \E k \in 2..(Len(events) - 1) : PayloadChangedAt(events, k)
    /\ result[2] = 1

\* C10 as stated: expected_prev is the genesis value before the first event and
\* the stored EventHash of event i after it, missing or empty included, and the
\* event after one without EventHash is a PrevHash mismatch whenever its
\* PrevHash is not null.
C10_AdvancesToStoredAlways ==
    pc = "chain" =>
        /\ prev_hash = (IF i = 0 THEN Genesis ELSE StoredHash(events[i]))
        /\ \A n \in 2..i :
              (~Truthy(StoredHash(events[n - 1])) /\ StoredPrev(events[n]) # None)
                  => <<n - 1, "PrevHash mismatch">> \in Range(errors)

\* C10 as amended: expected_prev is the last non-empty stored EventHash among
\* the events processed (the genesis value when there is none), whether or not
\* it matched the recomputed digest, and event n is a PrevHash mismatch exactly
\* when its PrevHash differs from that value.
C10_AdvancesToLastDeclared ==
    pc = "chain" =>
        /\ prev_hash = LastDeclared(events, i)
        /\ \A n \in 1..i :
              <<n - 1, "PrevHash mismatch">> \in Range(errors)
                  <=> StoredPrev(events[n]) # LastDeclared(events, n - 1)

C10_Witness ==
    /\ pc = "chain" /\ i >= 2
    /\ ~Truthy(StoredHash(events[i - 1]))
    /\ StoredPrev(events[i]) # None
    /\ <<i - 1, "PrevHash mismatch">> \notin Range(errors)
    /\ StoredHash(events[i]) # compute_event_hash(events[i])
    /\ prev_hash = StoredHash(events[i])

\* event n's PrevHash differs from the value expected when it is processed
PrevBad(evs, n) == StoredPrev(evs[n]) # LastDeclared(evs, n - 1)

\* event n's recomputed digest differs from its stored EventHash
HashBad(evs, n) == compute_event_hash(evs[n]) # StoredHash(evs[n])

\* the errors of the first n events, in event order, the PrevHash error of an
\* event before its EventHash error
RECURSIVE ExpectedChainErrors(_, _)
ExpectedChainErrors(evs, n) ==
    IF n = 0 THEN <<>>
    ELSE ExpectedChainErrors(evs, n - 1)
         \o (IF PrevBad(evs, n) THEN << <<n - 1, "PrevHash mismatch">> >> ELSE <<>>)
         \o (IF HashBad(evs, n) THEN << <<n - 1, "EventHash mismatch">> >> ELSE <<>>)

\* what the counts are after the first n events
ExpectedChainCounts(evs, n) ==
    <<Cardinality({m \in 1..n : ~HashBad(evs, m)}),
      Cardinality({m \in 1..n : PrevBad(evs, m)})
          + Cardinality({m \in 1..n : HashBad(evs, m)}),
      ExpectedChainErrors(evs, n)>>

\* C11: verify_hash_chain never stops early.  It returns only after all N events
\* were processed; after every event, and on return, failed is the number of
\* PrevHash mismatches plus the number of EventHash mismatches, passed is the
\* number of events whose digest equals the stored EventHash, and the error list
\* has exactly failed entries in event order (PrevHash error first).  Hence
\* passed <= N, failed <= 2N, and the empty sequence gives <<0, 0, <<>>>>.
C11_NeverStopsEarly ==
    /\ pc = "chain" => <<passed, failed, errors>> = ExpectedChainCounts(events, i)
    /\ pc = "done" =>
          /\ i = Len(events)
          /\ result = ExpectedChainCounts(events, Len(events))
          /\ Len(result[3]) = result[2]
          /\ result[1] <= Len(events) /\ result[2] <= 2 * Len(events)
          /\ events = <<>> => result = <<0, 0, <<>>>>

\* a run that went on after an event with both errors and passed a later event
C11_Witness ==
    /\ pc = "done" /\ Len(events) >= 3
    /\ PrevBad(events, 1) /\ HashBad(events, 1)
    /\ ~HashBad(events, Len(events))
    /\ result[1] >= 1 /\ result[2] >= 3

(***************************************************************************)
(* Specification SpecHash: compute_event_hash applied to two events.       *)
(* The events vary in the value and presence of Header.PrevHash,           *)
(* Header.EventHash, Governance.Symbol, a top-level EventHash and one of   *)
(* Hash, hash, Signature, signature, and in the insertion order of their   *)
(* keys.                                                                   *)
(***************************************************************************)
HashX == <<3, 1>>
HashY == <<3, 2>>

Reverse(s) == [n \in 1..Len(s) |-> s[Len(s) + 1 - n]]

HashExtras ==
    { <<>>,
      << <<"Hash", S(HashX)>> >>,
      << <<"Hash", S(HashY)>> >>,
      << <<"hash", S(HashX)>> >>,
      << <<"Signature", D(Field("Value", HashX))>> >>,
      << <<"signature", S(HashY)>> >> }

HashEventsInOrder ==
    { << <<"Header", D(Field("PrevHash", p) \o Field("EventHash", h))>> >>
      \o Field("EventHash", t)
      \o << <<"Governance", D(Field("Symbol", sym))>> >>
      \o x :
      p \in {Genesis, HashX}, h \in {Absent, HashX, HashY}, t \in {Absent, HashX},
      sym \in {SymA, SymB}, x \in HashExtras }

\* the same dict built in the opposite insertion order, at both levels
Reordered(event) ==
    Reverse([n \in 1..Len(event) |->
        IF IsDict(event[n][2]) THEN <<event[n][1], D(Reverse(event[n][2][2]))>>
        ELSE event[n]])

HashInputs == HashEventsInOrder \cup { Reordered(e) : e \in HashEventsInOrder }

InitHash ==
    /\ events \in HashEventsInOrder \X HashInputs
    /\ NoBatches /\ NoManifest /\ NoKey /\ NoTotals /\ NoRoot /\ NoCounts
    /\ pc = "hash"
    /\ prev_hash = Genesis
    /\ result = <<>>

\* one call of compute_event_hash, on events[i]; the event is only read
HashCall ==
    /\ pc = "hash" /\ i < Len(events)
    /\ result' = Append(result, compute_event_hash(events[i + 1]))
    /\ i' = i + 1
    /\ UNCHANGED <<inputs, totals, passed, failed, errors, prev_hash, hashes, leaves, pc>>

HashDone ==
    /\ pc = "hash" /\ i = Len(events)
    /\ pc' = "done"
    /\ UNCHANGED <<inputs, locals, totals, result>>

NextHash == HashCall \/ HashDone

SpecHash == InitHash /\ [][NextHash]_vars

\* a dict as the mapping it is, whatever the insertion order
RECURSIVE AsMap(_)
AsMap(d) ==
    [k \in Keys(d) |->
        IF IsDict(Lookup(d, k)) THEN <<"d", AsMap(Lookup(d, k)[2])>> ELSE Lookup(d, k)]

\* the redacted view of the claim: the event without top-level Hash, hash,
\* Signature, signature and without Header.EventHash
RedactedView(event) ==
    LET m == AsMap(event)
    IN [k \in DOMAIN m \ {"Hash", "hash", "Signature", "signature"} |->
          IF k = "Header"
          THEN <<"d", [hk \in DOMAIN m[k][2] \ {"EventHash"} |-> m[k][2][hk]]>>
          ELSE m[k]]

\* C9: two events have the same digest exactly when their redacted views are
\* equal as mappings (so the dropped fields and the key order never matter and
\* every other field does), and hashing leaves the events as they were.
C9_DigestOfRedactedView ==
    /\ [](pc = "done" =>
            (result[1] = result[2] <=> RedactedView(events[1]) = RedactedView(events[2])))
    /\ [][events' = events]_vars

C9_Witness ==
    /\ pc = "done"
    /\ result[1] = result[2]
    /\ events[1] # events[2]
    /\ StoredHash(events[1]) # StoredHash(events[2])
    /\ AsMap(events[1]) # AsMap(events[2])

C9_WitnessDiffer ==
    /\ pc = "done"
    /\ result[1] # result[2]
    /\ GetStr(events[1], "EventHash") # GetStr(events[2], "EventHash")
    /\ [k \in DOMAIN AsMap(events[1]) \ {"EventHash"} |-> AsMap(events[1])[k]]
         = [k \in DOMAIN AsMap(events[2]) \ {"EventHash"} |-> AsMap(events[2])[k]]

(***************************************************************************)
(* compute_merkle_root.  Digests are 32 bytes in the code, so the bytes    *)
(* b'\x01' + left + right split in one way only; the digests of the model  *)
(* vary in length and the node's message carries the length of left to     *)
(* keep that.                                                              *)
(***************************************************************************)
\* hashlib.sha256(b'\x00' + bytes.fromhex(h)).digest()
LeafNode(h) == sha256_digest(<<0>> \o fromhex(h))

\* hashlib.sha256(b'\x01' + left + right).digest()
InnerNode(left, right) == sha256_digest(<<1, Len(left)>> \o left \o right)

\* mutant: the last node of an odd level is promoted unchanged
RECURSIVE next_level_Promote(_, _)
next_level_Promote(level, n) ==
    IF n >= Len(level) THEN <<>>
    ELSE <<IF n + 1 < Len(level) THEN InnerNode(level[n + 1], level[n + 2])
           ELSE level[n + 1]>> \o next_level_Promote(level, n + 2)

\* the inner for loop, from the 0-based index n on
RECURSIVE next_level(_, _)
next_level(level, n) ==
    IF n >= Len(level) THEN <<>>
    ELSE <<IF n + 1 < Len(level) THEN InnerNode(level[n + 1], level[n + 2])
           ELSE InnerNode(level[n + 1], level[n + 1])>> \o next_level(level, n + 2)

\* the while loop
RECURSIVE MerkleLoop(_)
MerkleLoop(level) ==
    IF Len(level) > 1 THEN MerkleLoop(next_level(level, 0)) ELSE level

\* the function as a whole, as verify_merkle_tree calls it
compute_merkle_root(hs) ==
    IF hs = <<>> THEN sha256_hexdigest(<<>>)
    ELSE hex(MerkleLoop([n \in 1..Len(hs) |-> LeafNode(hs[n])])[1])

(***************************************************************************)
(* Specification SpecRoot: compute_merkle_root run on a list of hex        *)
(* digests, one level of the tree per step.                                *)
(***************************************************************************)
MaxLeaves == 6

LeafValues == {Genesis, HashX, HashY}

RECURSIVE ListsOfLen(_, _)
ListsOfLen(vals, n) ==
    IF n = 0 THEN {<<>>}
    ELSE UNION { { Append(l, v) : v \in vals } : l \in ListsOfLen(vals, n - 1) }

InitRoot ==
    /\ events = <<>>
    /\ NoBatches /\ NoManifest /\ NoKey /\ NoTotals /\ NoCounts
    /\ hashes \in UNION { ListsOfLen(LeafValues, n) : n \in 0..MaxLeaves }
    /\ leaves = <<>>
    /\ pc = "root"
    /\ prev_hash = Genesis
    /\ result = <<>>

\* if not hashes: return hashlib.sha256(b'').hexdigest()
RootEmpty ==
    /\ pc = "root" /\ hashes = <<>>
    /\ result' = sha256_hexdigest(<<>>)
    /\ pc' = "done"
    /\ UNCHANGED <<inputs, locals, totals>>

RootLeaves ==
    /\ pc = "root" /\ hashes # <<>>
    /\ leaves' = [n \in 1..Len(hashes) |-> LeafNode(hashes[n])]
    /\ pc' = "root_loop"
    /\ UNCHANGED <<inputs, totals, i, passed, failed, errors, prev_hash, hashes, result>>

RootLevel ==
    /\ pc = "root_loop" /\ Len(leaves) > 1
    /\ leaves' = next_level(leaves, 0)
    /\ UNCHANGED <<inputs, totals, i, passed, failed, errors, prev_hash, hashes, pc,
                   result>>

RootReturn ==
    /\ pc = "root_loop" /\ ~(Len(leaves) > 1)
    /\ result' = hex(leaves[1])
    /\ pc' = "done"
    /\ UNCHANGED <<inputs, locals, totals>>

NextRoot == RootEmpty \/ RootLeaves \/ RootLevel \/ RootReturn

SpecRoot == InitRoot /\ [][NextRoot]_vars

\* the reference construction: a level of n nodes has (n + 1) \div 2 parents, the
\* m-th of them over nodes 2m - 1 and 2m, the last node twice when there is no 2m
RefParents(level) ==
    [m \in 1..((Len(level) + 1) \div 2) |->
        InnerNode(level[2 * m - 1],
                  level[IF 2 * m <= Len(level) THEN 2 * m ELSE 2 * m - 1])]

RECURSIVE RefTop(_)
RefTop(level) == IF Len(level) = 1 THEN level[1] ELSE RefTop(RefParents(level))

RefRoot(hs) ==
    IF Len(hs) = 0 THEN hex(<<4>>)
    ELSE hex(RefTop([n \in 1..Len(hs) |-> <<4, 0>> \o fromhex(hs[n])]))

\* the trees of 1, 3 and 6 leaves written out
RefByHand(hs) ==
    LET L(n) == <<4, 0>> \o fromhex(hs[n])
        N(a, b) == InnerNode(a, b)
    IN CASE Len(hs) = 1 -> hex(L(1))
         [] Len(hs) = 3 -> hex(N(N(L(1), L(2)), N(L(3), L(3))))
         [] Len(hs) = 6 ->
              hex(N(N(N(L(1), L(2)), N(L(3), L(4))),
                    N(N(L(5), L(6)), N(L(5), L(6)))))
         [] OTHER -> RefRoot(hs)

GetList(d, k) == IF HasKey(d, k) THEN Lookup(d, k)[2] ELSE <<>>

\* [e.get('Header', {}).get('EventHash') for e in events], the falsy ones dropped
event_hashes(evs) ==
    LET all == [n \in 1..Len(evs) |-> StoredHash(evs[n])]
    IN SelectSeq(all, Truthy)

\* mutant: the leaves are the digests recomputed from the events
event_hashes_Recomputed(evs) == [n \in 1..Len(evs) |-> compute_event_hash(evs[n])]

\* the list both checks of verify_merkle_tree use
merkle_leaves(evs) == event_hashes(evs)

\* bytes.fromhex raises ValueError on a string that is not hexadecimal
RootRaises(hs) == \E n \in 1..Len(hs) : ~IsHex(hs[n])

\* the first check: the outcome, given the counts so far
MerkleRootCheck(st, evs, b) ==
    IF compute_merkle_root(merkle_leaves(evs)) = GetStr(b, "MerkleRoot")
    THEN [st EXCEPT !.passed = @ + 1]
    ELSE [st EXCEPT !.failed = @ + 1,
                    !.errors = Append(@, <<-1, "MerkleRoot mismatch">>)]

\* the second check
MerkleHashesCheck(st, evs, b) ==
    IF GetList(b, "EventHashes") = merkle_leaves(evs)
    THEN [st EXCEPT !.passed = @ + 1]
    ELSE [st EXCEPT !.failed = @ + 1,
                    !.errors = Append(@, <<-1, "EventHashes array mismatch">>)]

CountStart == [passed |-> 0, failed |-> 0, errors |-> <<>>]

\* the function as a whole, as main calls it, for leaves that are hexadecimal
verify_merkle_tree(evs, b) ==
    LET st == MerkleHashesCheck(MerkleRootCheck(CountStart, evs, b), evs, b)
    IN <<st.passed, st.failed, st.errors>>

(***************************************************************************)
(* Specification SpecMerkle: verify_merkle_tree run on events and a batch. *)
(* An event's EventHash is absent, not hexadecimal, its digest, or the     *)
(* digest it had with the other Symbol.  The batch declares no list, the   *)
(* stored hashes, the digests or the stored hashes reversed, and no root   *)
(* or the root of one of these lists.                                      *)
(***************************************************************************)
MaxMerkleEvents == 2

MerkleEventChoices ==
    UNION { { MkEvent(Genesis, h, sym) :
              h \in {Absent, NotHex,
                     compute_event_hash(MkEvent(Genesis, Absent, sym)),
                     compute_event_hash(MkEvent(Genesis, Absent, OtherSym(sym)))} } :
            sym \in {SymA, SymB} }

MerkleEventLists(max) == UNION { ListsOfLen(MerkleEventChoices, n) : n \in 0..max }

digests(evs) == [n \in 1..Len(evs) |-> compute_event_hash(evs[n])]

DeclaredLists(evs) ==
    {Absent, event_hashes(evs), digests(evs), Reverse(event_hashes(evs))}

MkBatch(root, declared) ==
    Field("MerkleRoot", root)
    \o (IF declared = Absent THEN <<>> ELSE << <<"EventHashes", <<"l", declared>>>> >>)

BatchChoices(evs) ==
    UNION { { MkBatch(r, l) :
              r \in {Absent} \cup { compute_merkle_root(hs) :
                        hs \in {h \in DeclaredLists(evs) : ~RootRaises(h)} } } :
            l \in DeclaredLists(evs) \cup {<<>>} }

InitMerkle ==
    /\ events \in MerkleEventLists(MaxMerkleEvents)
    /\ batches \in BatchChoices(events)
    /\ NoManifest /\ NoKey /\ NoTotals /\ NoRoot /\ NoCounts
    /\ pc = "merkle_root"
    /\ prev_hash = Genesis
    /\ result = <<>>

Counts == [passed |-> passed, failed |-> failed, errors |-> errors]

SetCounts(st) == passed' = st.passed /\ failed' = st.failed /\ errors' = st.errors

\* compute_merkle_root raises: the exception leaves verify_merkle_tree
MerkleRaise ==
    /\ pc = "merkle_root" /\ RootRaises(merkle_leaves(events))
    /\ pc' = "raised"
    /\ result' = "ValueError"
    /\ UNCHANGED <<inputs, locals, totals>>

MerkleRoot ==
    /\ pc = "merkle_root" /\ ~RootRaises(merkle_leaves(events))
    /\ SetCounts(MerkleRootCheck(Counts, events, batches))
    /\ pc' = "merkle_hashes"
    /\ UNCHANGED <<inputs, totals, i, prev_hash, hashes, leaves, result>>

MerkleHashes ==
    /\ pc = "merkle_hashes"
    /\ SetCounts(MerkleHashesCheck(Counts, events, batches))
    /\ pc' = "merkle_return"
    /\ UNCHANGED <<inputs, totals, i, prev_hash, hashes, leaves, result>>

MerkleReturn ==
    /\ pc = "merkle_return"
    /\ result' = <<passed, failed, errors>>
    /\ pc' = "done"
    /\ UNCHANGED <<inputs, locals, totals>>

NextMerkle == MerkleRaise \/ MerkleRoot \/ MerkleHashes \/ MerkleReturn

SpecMerkle == InitMerkle /\ [][NextMerkle]_vars

RootMismatch == <<-1, "MerkleRoot mismatch">> \in Range(errors)
HashesMismatch == <<-1, "EventHashes array mismatch">> \in Range(errors)

KeyA == <<11>>
KeyB == <<12>>
BadKey == <<13>>
ShortSig == <<15>>
BadB64 == <<16>>

\* the 64 signature bytes (tag 17) and their base64 text (tag 14)
ed25519_sign(key, message) == <<17>> \o key \o message
b64encode(b) == <<14>> \o Tail(b)
SigOf(key, h) == b64encode(ed25519_sign(key, fromhex(h)))

\* nacl.signing.VerifyKey(public_key_bytes) raises unless the key is 32 bytes
KeyUsable(key) == key \in {KeyA, KeyB}

\* base64.b64decode raises binascii.Error
B64Raises(s) == s = BadB64
b64decode(s) == IF s = ShortSig THEN <<17>> ELSE <<17>> \o Tail(s)

\* VerifyKey.verify raises ValueError unless the signature is 64 bytes long
SigLengthBad(sig_bytes) == sig_bytes = <<17>>

\* signature.get('Value') if isinstance(signature, dict) else signature
sig_value(event) ==
    IF ~HasKey(event, "Signature") THEN None
    ELSE IF IsDict(Lookup(event, "Signature"))
         THEN GetStr(Lookup(event, "Signature")[2], "Value")
         ELSE Lookup(event, "Signature")[2]

SigFail(st, idx, text) ==
    [st EXCEPT !.failed = @ + 1, !.errors = Append(@, <<idx, text>>)]

\* one iteration of the loop, for the event at 0-based index idx
SigIter(st, idx, event, key) ==
    LET value == sig_value(event)
        event_hash == StoredHash(event)
    IN IF ~Truthy(value) THEN st
       ELSE IF B64Raises(value) THEN SigFail(st, idx, "Signature error")
       ELSE IF ~Truthy(event_hash) THEN st
       ELSE IF ~IsHex(event_hash) THEN SigFail(st, idx, "Signature error")
       ELSE IF SigLengthBad(b64decode(value)) THEN SigFail(st, idx, "Signature error")
       ELSE IF b64decode(value) = ed25519_sign(key, fromhex(event_hash))
            THEN [st EXCEPT !.passed = @ + 1]
       ELSE SigFail(st, idx, "Invalid signature")

RECURSIVE SigFold(_, _, _)
SigFold(evs, key, n) ==
    IF n = 0 THEN CountStart ELSE SigIter(SigFold(evs, key, n - 1), n - 1, evs[n], key)

\* the function as a whole, as main calls it
verify_signatures(evs, key, nacl) ==
    IF ~nacl THEN <<0, 0, << <<-1, "PyNaCl not available">> >> >>
    ELSE IF ~KeyUsable(key) THEN <<0, 0, << <<-1, "Failed to create verify key">> >> >>
    ELSE LET st == SigFold(evs, key, Len(evs)) IN <<st.passed, st.failed, st.errors>>

(***************************************************************************)
(* Specification SpecSig: verify_signatures run on events and a key.       *)
(***************************************************************************)
MaxSigEvents == 2

SigField(v) ==
    IF v = Absent THEN <<>> ELSE << <<"Signature", D(Field("Value", v))>> >>

SigEventChoices ==
    { MkEvent(Genesis, h, SymA) \o SigField(v) :
        h \in {Absent, NotHex, HashX},
        v \in {Absent, EmptyStr, BadB64, ShortSig, SigOf(KeyA, HashX), SigOf(KeyB, HashX)} }

InitSig ==
    /\ events \in UNION { ListsOfLen(SigEventChoices, n) : n \in 0..MaxSigEvents }
    /\ public_key \in {KeyA, BadKey}
    /\ NACL_AVAILABLE \in BOOLEAN
    /\ NoBatches /\ NoManifest /\ NoTotals /\ NoRoot /\ NoCounts
    /\ pc = "sig"
    /\ prev_hash = Genesis
    /\ result = <<>>

\* if not NACL_AVAILABLE: return 0, 0, ["PyNaCl not available"]
SigNoNacl ==
    /\ pc = "sig" /\ ~NACL_AVAILABLE
    /\ result' = <<0, 0, << <<-1, "PyNaCl not available">> >> >>
    /\ pc' = "done"
    /\ UNCHANGED <<inputs, locals, totals>>

\* except Exception as e: return 0, 0, [f"Failed to create verify key: {e}"]
SigBadKey ==
    /\ pc = "sig" /\ NACL_AVAILABLE /\ ~KeyUsable(public_key)
    /\ result' = <<0, 0, << <<-1, "Failed to create verify key">> >> >>
    /\ pc' = "done"
    /\ UNCHANGED <<inputs, locals, totals>>

SigKey ==
    /\ pc = "sig" /\ NACL_AVAILABLE /\ KeyUsable(public_key)
    /\ pc' = "sig_loop"
    /\ UNCHANGED <<inputs, locals, totals, result>>

SigLoop ==
    /\ pc = "sig_loop" /\ i < Len(events)
    /\ SetCounts(SigIter(Counts, i, events[i + 1], public_key))
    /\ i' = i + 1
    /\ UNCHANGED <<inputs, totals, prev_hash, hashes, leaves, pc, result>>

SigReturn ==
    /\ pc = "sig_loop" /\ i = Len(events)
    /\ result' = <<passed, failed, errors>>
    /\ pc' = "done"
    /\ UNCHANGED <<inputs, locals, totals>>

NextSig == SigNoNacl \/ SigBadKey \/ SigKey \/ SigLoop \/ SigReturn

SpecSig == InitSig /\ [][NextSig]_vars

\* the class the claim puts an event in: no signature value; a signature or a
\* stored hash that cannot be decoded; a signature that verifies against the
\* bytes of the stored hash; one that does not
SigClass(event, key) ==
    LET value == sig_value(event)
        h == StoredHash(event)
    IN IF ~Truthy(value) THEN "none"
       ELSE IF value \in {BadB64, ShortSig} \/ ~IsHex(h) THEN "error"
       ELSE IF value = SigOf(key, h) THEN "pass"
       ELSE "invalid"

RECURSIVE SigExpected(_, _, _)
SigExpected(evs, key, n) ==
    IF n = 0 THEN <<0, 0, <<>>>>
    ELSE LET r == SigExpected(evs, key, n - 1)
             c == SigClass(evs[n], key)
         IN CASE c = "none" -> r
              [] c = "pass" -> <<r[1] + 1, r[2], r[3]>>
              [] c = "invalid" -> <<r[1], r[2] + 1, Append(r[3], <<n - 1, "Invalid signature">>)>>
              [] c = "error" -> <<r[1], r[2] + 1, Append(r[3], <<n - 1, "Signature error">>)>>

\* C4: with a usable key every event is skipped (no signature value), passed
\* (the signature verifies), failed as 'Invalid signature' (it decodes and does
\* not verify) or failed as 'Signature error' (the signature or the stored
\* hash cannot be decoded), and every event is processed.
C4_EveryEventInOneClass ==
    (pc = "sig_loop" /\ NACL_AVAILABLE /\ KeyUsable(public_key))
        => <<passed, failed, errors>> = SigExpected(events, public_key, i)

\* C5: (a) an event with a signature value and no stored EventHash is a
\* failure with a 'Signature error'; (b) a key that VerifyKey rejects makes
\* verify_signatures return failed >= 1.
C5_MalformedInputFails ==
    pc = "done" =>
        /\ (NACL_AVAILABLE /\ KeyUsable(public_key)) =>
              \A n \in 1..Len(events) :
                  (Truthy(sig_value(events[n])) /\ ~Truthy(StoredHash(events[n])))
                      => <<n - 1, "Signature error">> \in Range(result[3])
        /\ (NACL_AVAILABLE /\ ~KeyUsable(public_key)) => result[2] >= 1

(***************************************************************************)
(* verify_platinum_requirements                                            *)
(***************************************************************************)
\* mutant: the header of the last event is inspected
tier_header_Last(evs) == GetDict(evs[Len(evs)], "Header")

\* header = events[0].get('Header', {})
tier_header(evs) == GetDict(evs[1], "Header")

ClockCheck(st, evs) ==
    IF GetStr(tier_header(evs), "ClockSyncStatus") = PTP_LOCKED
    THEN [st EXCEPT !.passed = @ + 1]
    ELSE [st EXCEPT !.failed = @ + 1, !.errors = Append(@, <<-1, "ClockSyncStatus">>)]

PrecisionCheck(st, evs) ==
    IF GetStr(tier_header(evs), "TimestampPrecision") = NANOSECOND
    THEN [st EXCEPT !.passed = @ + 1]
    ELSE [st EXCEPT !.failed = @ + 1, !.errors = Append(@, <<-1, "TimestampPrecision">>)]

NoEvents == <<0, 1, << <<-1, "No events found">> >> >>

\* the function as a whole, as main calls it
verify_platinum_requirements(evs) ==
    IF evs = <<>> THEN NoEvents
    ELSE LET st == PrecisionCheck(ClockCheck(CountStart, evs), evs)
         IN <<st.passed, st.failed, st.errors>>

(***************************************************************************)
(* Specification SpecTier: verify_platinum_requirements run on events      *)
(* with or without a Header, whose two fields are absent, the required     *)
(* value or another one.                                                   *)
(***************************************************************************)
MaxTierEvents == 2

TierFields(c, t) == Field("ClockSyncStatus", c) \o Field("TimestampPrecision", t)

TierEventChoices ==
    { << <<"Governance", D(Field("Symbol", SymA))>> >> }
    \cup { << <<"Header", D(TierFields(c, t))>> >> :
             c \in {Absent, PTP_LOCKED, OtherStr}, t \in {Absent, NANOSECOND, OtherStr} }

InitTier ==
    /\ events \in UNION { ListsOfLen(TierEventChoices, n) : n \in 0..MaxTierEvents }
    /\ NoBatches /\ NoManifest /\ NoKey /\ NoTotals /\ NoRoot /\ NoCounts
    /\ pc = "tier"
    /\ prev_hash = Genesis
    /\ result = <<>>

\* if not events: return 0, 1, ["No events found"]
TierNoEvents ==
    /\ pc = "tier" /\ events = <<>>
    /\ result' = NoEvents
    /\ pc' = "done"
    /\ UNCHANGED <<inputs, locals, totals>>

TierClock ==
    /\ pc = "tier" /\ events # <<>>
    /\ SetCounts(ClockCheck(Counts, events))
    /\ pc' = "tier_precision"
    /\ UNCHANGED <<inputs, totals, i, prev_hash, hashes, leaves, result>>

TierPrecision ==
    /\ pc = "tier_precision"
    /\ SetCounts(PrecisionCheck(Counts, events))
    /\ pc' = "tier_return"
    /\ UNCHANGED <<inputs, totals, i, prev_hash, hashes, leaves, result>>

TierReturn ==
    /\ pc = "tier_return"
    /\ result' = <<passed, failed, errors>>
    /\ pc' = "done"
    /\ UNCHANGED <<inputs, locals, totals>>

NextTier == TierNoEvents \/ TierClock \/ TierPrecision \/ TierReturn

SpecTier == InitTier /\ [][NextTier]_vars

\* what the two fields of the first event's Header give
TierOfFirst(evs) ==
    LET h == GetDict(evs[1], "Header")
        c == GetStr(h, "ClockSyncStatus") = PTP_LOCKED
        t == GetStr(h, "TimestampPrecision") = NANOSECOND
    IN << (IF c THEN 1 ELSE 0) + (IF t THEN 1 ELSE 0),
          (IF c THEN 0 ELSE 1) + (IF t THEN 0 ELSE 1),
          (IF c THEN <<>> ELSE << <<-1, "ClockSyncStatus">> >>)
          \o (IF t THEN <<>> ELSE << <<-1, "TimestampPrecision">> >>) >>

\* C8: no events give (0, 1, ['No events found']); otherwise only the first
\* event's Header decides, its two fields give passed + failed = 2 with one
\* error per failed field, and no such result equals the empty-input one.
C8_TierResult ==
    pc = "done" =>
        IF events = <<>> THEN result = <<0, 1, << <<-1, "No events found">> >> >>
        ELSE /\ result = TierOfFirst(events)
             /\ result[1] + result[2] = 2
             /\ Len(result[3]) = result[2]
             /\ result # NoEvents

C8_Witness ==
    /\ pc = "done" /\ Len(events) = 2
    /\ GetDict(events[1], "Header") # GetDict(events[2], "Header")
    /\ result[1] = 1 /\ result[2] = 1

(***************************************************************************)
(* verify_file_integrity.  A manifest entry is <<path, expected, content>>:*)
(* a path (numbered), the expected sha256 and the content of the file at   *)
(* the path (Absent when there is no such file).                           *)
(***************************************************************************)
FileIter(st, entry) ==
    IF entry[3] = Absent
    THEN [st EXCEPT !.failed = @ + 1, !.errors = Append(@, <<entry[1], "File not found">>)]
    ELSE IF sha256_hexdigest(entry[3]) = entry[2]
         THEN [st EXCEPT !.passed = @ + 1]
         ELSE [st EXCEPT !.failed = @ + 1,
                         !.errors = Append(@, <<entry[1], "Hash mismatch">>)]

RECURSIVE FileFold(_, _)
FileFold(files, n) ==
    IF n = 0 THEN CountStart ELSE FileIter(FileFold(files, n - 1), files[n])

\* the function as a whole, as main calls it
verify_file_integrity(m) ==
    LET st == FileFold(GetList(m, "files"), Len(GetList(m, "files")))
    IN <<st.passed, st.failed, st.errors>>

(***************************************************************************)
(* main, from the point where the evidence pack is loaded.  Each checker   *)
(* is one step.                                                            *)
(***************************************************************************)
\* total_passed += p; total_failed += f; all_errors.extend(e)
Merge(res, name) ==
    /\ total_passed' = total_passed + res[1]
    /\ total_failed' = total_failed + res[2]
    /\ all_errors' = all_errors \o res[3]
    /\ ran' = Append(ran, name)

\* mutant: the error list of the checker is dropped
MainChain_NoErrors ==
    /\ pc = "main_chain"
    /\ Merge(<<verify_hash_chain(events)[1], verify_hash_chain(events)[2], <<>>>>, "chain")
    /\ pc' = "main_sig"
    /\ UNCHANGED <<inputs, locals, result>>

MainChain ==
    /\ pc = "main_chain"
    /\ Merge(verify_hash_chain(events), "chain")
    /\ pc' = "main_sig"
    /\ UNCHANGED <<inputs, locals, result>>

\* if public_key and NACL_AVAILABLE
MainSig ==
    /\ pc = "main_sig" /\ Truthy(public_key) /\ NACL_AVAILABLE
    /\ Merge(verify_signatures(events, public_key, NACL_AVAILABLE), "sig")
    /\ pc' = "main_merkle"
    /\ UNCHANGED <<inputs, locals, result>>

MainSigSkipped ==
    /\ pc = "main_sig" /\ ~(Truthy(public_key) /\ NACL_AVAILABLE)
    /\ pc' = "main_merkle"
    /\ UNCHANGED <<inputs, locals, totals, result>>

MainMerkle ==
    /\ pc = "main_merkle" /\ ~RootRaises(merkle_leaves(events))
    /\ Merge(verify_merkle_tree(events, batches), "merkle")
    /\ pc' = "main_files"
    /\ UNCHANGED <<inputs, locals, result>>

\* the ValueError of bytes.fromhex is caught nowhere: the process ends with a
\* traceback and exit status 1
MainMerkleRaises ==
    /\ pc = "main_merkle" /\ RootRaises(merkle_leaves(events))
    /\ pc' = "raised"
    /\ result' = 1
    /\ UNCHANGED <<inputs, locals, totals>>

\* if manifest
MainFiles ==
    /\ pc = "main_files" /\ manifest # <<>>
    /\ Merge(verify_file_integrity(manifest), "files")
    /\ pc' = "main_tier"
    /\ UNCHANGED <<inputs, locals, result>>

MainFilesSkipped ==
    /\ pc = "main_files" /\ manifest = <<>>
    /\ pc' = "main_tier"
    /\ UNCHANGED <<inputs, locals, totals, result>>

MainTier ==
    /\ pc = "main_tier"
    /\ Merge(verify_platinum_requirements(events), "tier")
    /\ pc' = "main_summary"
    /\ UNCHANGED <<inputs, locals, result>>

\* return 0 if total_failed == 0 else 1
MainReturn ==
    /\ pc = "main_summary"
    /\ result' = IF total_failed = 0 THEN 0 ELSE 1
    /\ pc' = "done"
    /\ UNCHANGED <<inputs, locals, totals>>

NextMain ==
    \/ MainChain \/ MainSig \/ MainSigSkipped \/ MainMerkle \/ MainMerkleRaises
    \/ MainFiles \/ MainFilesSkipped \/ MainTier \/ MainReturn

(***************************************************************************)
(* Specification SpecMain: main run on a loaded evidence pack.             *)
(***************************************************************************)
MaxMainEvents == 2

\* the events after the first link to the last declared hash and carry no tier
\* fields; an event declares its digest, unsigned or signed with KeyA, or no
\* hash under a signature base64 rejects, or a hash that is not hexadecimal
MainEvents(c) ==
    LET p == LastDeclared(c, Len(c))
        tiers == IF c = <<>> THEN {TierFields(PTP_LOCKED, NANOSECOND), TierFields(OtherStr, Absent)}
                 ELSE {<<>>}
        Ev(h, t) == << <<"Header", D(Field("PrevHash", p) \o Field("EventHash", h) \o t)>>,
                       <<"Governance", D(Field("Symbol", SymA))>> >>
        Digest(t) == compute_event_hash(Ev(Absent, t))
    IN UNION { { Ev(Digest(t), t),
                 Ev(Digest(t), t) \o SigField(SigOf(KeyA, Digest(t))),
                 Ev(Absent, t) \o SigField(BadB64),
                 Ev(NotHex, t) } : t \in tiers }

RECURSIVE MainListsOfLen(_)
MainListsOfLen(n) ==
    IF n = 0 THEN {<<>>}
    ELSE UNION { { Append(c, e) : e \in MainEvents(c) } : c \in MainListsOfLen(n - 1) }

\* batches.json: unreadable (the empty dict), or the batch of the stored hashes
MainBatches(evs) ==
    {<<>>}
    \cup (IF RootRaises(event_hashes(evs)) THEN {}
          ELSE {MkBatch(compute_merkle_root(event_hashes(evs)), event_hashes(evs))})

\* hash_manifest.json: unreadable or empty, with one file that matches, or with
\* a file that matches, one that is missing and one that was changed
MainManifests ==
    { <<>>,
      << <<"files", <<"l", << <<0, sha256_hexdigest(SymA), SymA>> >> >>>> >>,
      << <<"files", <<"l", << <<0, sha256_hexdigest(SymA), SymA>>,
                               <<1, sha256_hexdigest(SymA), Absent>>,
                               <<2, sha256_hexdigest(SymA), SymB>> >> >>>> >> }

InitMain ==
    /\ events \in UNION { MainListsOfLen(n) : n \in 0..MaxMainEvents }
    /\ batches \in MainBatches(events)
    /\ manifest \in MainManifests
    /\ \E kn \in {<<None, TRUE>>, <<KeyA, TRUE>>, <<BadKey, TRUE>>, <<KeyA, FALSE>>} :
          public_key = kn[1] /\ NACL_AVAILABLE = kn[2]
    /\ NoTotals /\ NoRoot /\ NoCounts
    /\ pc = "main_chain"
    /\ prev_hash = Genesis
    /\ result = <<>>

SpecMain == InitMain /\ [][NextMain]_vars

\* the checkers in the order main runs them, and the position each is run at
CheckerOrder == <<"chain", "sig", "merkle", "files", "tier">>
PcOrder == <<"main_chain", "main_sig", "main_merkle", "main_files", "main_tier",
             "main_summary", "done">>

Position(seq, x) == CHOOSE n \in 1..Len(seq) : seq[n] = x

\* what a checker contributes: its own result, or nothing when it is skipped
Contribution(name) ==
    CASE name = "chain" -> verify_hash_chain(events)
      [] name = "sig" ->
           IF Truthy(public_key) /\ NACL_AVAILABLE
           THEN verify_signatures(events, public_key, NACL_AVAILABLE)
           ELSE <<0, 0, <<>>>>
      [] name = "merkle" -> verify_merkle_tree(events, batches)
      [] name = "files" ->
           IF manifest # <<>> THEN verify_file_integrity(manifest) ELSE <<0, 0, <<>>>>
      [] name = "tier" -> verify_platinum_requirements(events)

RECURSIVE SumCounts(_, _), ConcatErrors(_)
SumCounts(cs, k) == IF cs = <<>> THEN 0 ELSE cs[1][k] + SumCounts(Tail(cs), k)
ConcatErrors(cs) == IF cs = <<>> THEN <<>> ELSE cs[1][3] \o ConcatErrors(Tail(cs))

\* the sums over the first n checkers of the order
SumOfFirst(n) ==
    LET cs == [k \in 1..n |-> Contribution(CheckerOrder[k])]
    IN <<SumCounts(cs, 1), SumCounts(cs, 2), ConcatErrors(cs)>>

\* C6: after each checker the three totals are the sums and the concatenation,
\* in the fixed order, of the results of the checkers run so far, a skipped
\* checker adding nothing; the exit status is 0 exactly when total_failed = 0.
C6_TotalsAreSums ==
    /\ pc \in Range(PcOrder) =>
          <<total_passed, total_failed, all_errors>>
              = SumOfFirst(Min(Position(PcOrder, pc) - 1, Len(CheckerOrder)))
    /\ pc \in Range(PcOrder) =>
          ran = SelectSeq(SubSeq(CheckerOrder, 1, Min(Position(PcOrder, pc) - 1, Len(CheckerOrder))),
                          LAMBDA c : /\ c = "sig" => (Truthy(public_key) /\ NACL_AVAILABLE)
                                     /\ c = "files" => manifest # <<>>)
    /\ pc \in {"done", "raised"} => (result \in {0, 1} /\ (result = 0 <=> total_failed = 0))

\* two events, every checker run but the signatures, and a pass
C6_Witness ==
    /\ pc = "done" /\ result = 0 /\ Len(events) = 2
    /\ ran = <<"chain", "merkle", "files", "tier">>
    /\ total_passed = 7

====
